---- MODULE Spec2Model ----
(***************************************************************************)
(* Model of pyomo/contrib/mindtpy/initialization.py: the initialization of *)
(* the MindtPy decomposition algorithm (MindtPy_initialize_master,         *)
(* init_rNLP, init_max_binaries), and of the conversions between time      *)
(* series and interval data of pyomo/contrib/mpc/data/convert.py.          *)
(*                                                                         *)
(* Numbers.  A float is a pair <<kind, n>> with kind one of "num", "nan",  *)
(* "ninf", "pinf".  Variable values and times are counted in half units    *)
(* (the integer 3 stands for 1.5), so that rounding and truncation are     *)
(* visible.  Solver outcomes, the clock reading and the configuration are  *)
(* inputs.                                                                 *)
(*                                                                         *)
(* Not represented: logging, config.single_tree / var_bound_add,           *)
(* config.calculate_dual and the dual values handed to add_oa_cuts (none   *)
(* of them reaches the bounds, the cut pools, the variable values or the   *)
(* control flow modelled here).                                            *)
(***************************************************************************)
EXTENDS Integers, Sequences, FiniteSets, TLC

VARIABLES
    strategy,               \* config.strategy
    init_strategy,          \* config.init_strategy ("None" when unset)
    configured_init_strategy, \* config.init_strategy as the caller set it
    fp_projcuts,            \* config.fp_projcuts
    nlp_solver,             \* config.nlp_solver
    mip_solver,             \* config.mip_solver
    time_limit,             \* config.time_limit (whole units)
    nlp_solver_args,        \* config.nlp_solver_args: [has_add_options, add_options]
    mip_solver_args,        \* config.mip_solver_args: [has_add_options, add_options]
    objective_sense,        \* solve_data.objective_sense
    LB, UB,                 \* solve_data.LB, solve_data.UB
    LB_progress,            \* solve_data.LB_progress
    UB_progress,            \* solve_data.UB_progress
    working_vals,           \* values of solve_data.working_model...variable_list
    working_model,          \* solve_data.working_model: [kinds, active, objectives]
    m,                      \* the clone the last strategy function solved
    mip_vals,               \* values of solve_data.mip...variable_list
    created,                \* cut pools that exist on solve_data.mip
    cuts,                   \* content of the cut pools of solve_data.mip
    wm_fp_created,          \* fp_orthogonality_cuts exists on the working model
    termination_condition,  \* solve_data.results.solver.termination_condition
    mip_subiter,            \* solve_data.mip_subiter
    jac_calls,              \* number of calc_jacobians calls
    elapsed,                \* get_main_elapsed_time(solve_data.timing), half units
    remaining,              \* the time budget computed for the last solve
    solver_call,            \* the last solver invocation: [solver, add_options]
    results,                \* the last solver outcome, with the solved clone's values
    pc,                     \* position of MindtPy_initialize_master
    op,                     \* the strategy function that ran in the last step
    raised,                 \* the exception that ended the call, "none" otherwise
    called,                 \* functions invoked since MindtPy_initialize_master began
    data,                   \* convert.py: the time series [time, value_dict]
    use_left_endpoint,      \* convert.py: the use_left_endpoint argument
    interval_data,          \* convert.py: a dict of dicts, name -> interval -> value
    intervals,              \* convert.py: a list of intervals
    time_points,            \* convert.py: the time points
    time_tol,               \* convert.py: the time_tol argument
    series,                 \* convert.py: the value lists built, with the error
    model_values,           \* convert.py: var[t].value, by name and time index
    writes,                 \* convert.py: the set_value calls made, in order
    mpc_raised,             \* convert.py: the exception raised, "none" otherwise
    mpc_op                  \* convert.py: the function that is to run or ran

vars == <<strategy, init_strategy, configured_init_strategy, fp_projcuts, nlp_solver, mip_solver,
          time_limit, nlp_solver_args, mip_solver_args, objective_sense,
          LB, UB, LB_progress, UB_progress, working_vals, working_model, m,
          mip_vals, created, cuts, wm_fp_created, termination_condition, mip_subiter, jac_calls,
          elapsed, remaining, solver_call, results, pc, op, raised, called,
          data, use_left_endpoint, interval_data, intervals, time_points,
              time_tol,
          series, model_values, writes, mpc_raised, mpc_op>>

mpc_vars == <<data, use_left_endpoint, interval_data, intervals, time_points,
              time_tol,
              series, model_values, writes, mpc_raised, mpc_op>>

mindtpy_vars == <<strategy, init_strategy, configured_init_strategy, fp_projcuts,
                  nlp_solver, mip_solver, time_limit, nlp_solver_args,
                  mip_solver_args, objective_sense, LB, UB, LB_progress,
                  UB_progress, working_vals, working_model, m, mip_vals,
                  created, cuts,
                  wm_fp_created, termination_condition, mip_subiter, jac_calls,
                  elapsed, remaining, solver_call, results, pc, op, raised,
                  called>>

config_vars == <<strategy, configured_init_strategy, fp_projcuts, nlp_solver, mip_solver, time_limit,
                 objective_sense, elapsed>>

(***************************************************************************)
(* Bounds of the model.                                                    *)
(***************************************************************************)
MaxBound == 1          \* reported / starting bounds are 0..MaxBound
MaxVal == 2            \* solver values are 1..MaxVal half units
MaxFpCuts == 1         \* orthogonality cuts one feasibility-pump loop adds
MaxElapsed == 7        \* clock readings are 0..MaxElapsed half units
MaxTimeLimit == 3      \* config.time_limit is 1..MaxTimeLimit
MaxPoints == 3         \* a time series has 0..MaxPoints time points
MaxTime == 2           \* time points and interval endpoints are 0..MaxTime
MaxIntervals == 3      \* a list of intervals has 0..MaxIntervals entries
MaxKeys == 2           \* a dict of intervals has 0..MaxKeys keys

(***************************************************************************)
(* Floats.                                                                 *)
(***************************************************************************)
NaN == <<"nan", 0>>
NegInf == <<"ninf", 0>>
PosInf == <<"pinf", 0>>
Num(n) == <<"num", n>>

isnan(x) == x[1] = "nan"

\* a <= b on floats (false as soon as one side is NaN)
FLeq(a, b) ==
    /\ ~isnan(a)
    /\ ~isnan(b)
    /\ \/ a[1] = "ninf"
       \/ b[1] = "pinf"
       \/ (a[1] = "num" /\ b[1] = "num" /\ a[2] <= b[2])

FMin(a, b) == IF FLeq(a, b) THEN a ELSE b
FMax(a, b) == IF FLeq(a, b) THEN b ELSE a

(***************************************************************************)
(* The optimization model: two variables, y discrete and x continuous.     *)
(***************************************************************************)
variable_list == {"x", "y"}
discrete_variable_list == {"y"}

\* its constraints, one of them nonlinear, and its objective
constraint_list == {"c_lin", "c_nl"}
nonlinear_constraint_list == {"c_nl"}

\* the working model as create_utility_block leaves it: kind of every
\* variable, activation of every constraint, the objectives with their
\* activation
WorkingModel ==
    [kinds |-> [v \in variable_list |->
                   IF v \in discrete_variable_list THEN "Binary" ELSE "Reals"],
     active |-> [c \in constraint_list |-> TRUE],
     objectives |-> [o \in {"objective"} |-> TRUE]]

NoModel == [kinds |-> <<>>, active |-> <<>>, objectives |-> <<>>]

Strategies == {"OA", "ECP", "GOA", "feas_pump"}
InitStrategies == {"None", "rNLP", "max_binary", "initial_binary", "feas_pump"}
Senses == {"minimize", "maximize"}
PoolNames == {"oa_cuts", "ecp_cuts", "aff_cuts", "fp_orthogonality_cuts"}

\* pyomo.opt.TerminationCondition; "other" stands for every member the code
\* does not name (error, unbounded, ...)
tc == {"optimal", "locallyOptimal", "feasible", "infeasible", "noSolution",
       "maxTimeLimit", "maxIterations", "other"}

ReportedBounds == {NaN} \cup {Num(n) : n \in 0..MaxBound}
SolverVals == [variable_list -> 1..MaxVal]
ZeroVals == [v \in variable_list |-> 0]

\* what a solver can report
Outcomes == [status : tc, lower_bound : ReportedBounds,
             upper_bound : ReportedBounds, vals : SolverVals]

NoResults == [status |-> "none", lower_bound |-> NaN, upper_bound |-> NaN,
              vals |-> ZeroVals]
NoCall == [solver |-> "none", add_options |-> <<>>]


(***************************************************************************)
(* Python arithmetic.                                                      *)
(***************************************************************************)
\* int(h/2) for h in half units: truncation towards zero
int(h) == IF h >= 0 THEN h \div 2 ELSE -((-h) \div 2)

\* max(a, b) on half units
max(a, b) == IF a >= b THEN a ELSE b

\* int(round(h/2)) for h >= 0 in half units; round() resolves a tie to the
\* even integer
round(h) ==
    IF h % 2 = 0 THEN h \div 2
    ELSE IF ((h - 1) \div 2) % 2 = 0 THEN (h - 1) \div 2 ELSE (h + 1) \div 2

(***************************************************************************)
(* Collaborators outside this file.                                        *)
(***************************************************************************)
\* gdpopt.util.copy_var_list_values: the target list takes the source values
copy_var_list_values(from_vals, to_vals) ==
    [v \in variable_list |-> from_vals[v]]

\* cut_generation.add_oa_cuts: one linearization of the nonlinear constraint
\* at the master's current point, appended to oa_cuts
add_oa_cuts(pools, point) ==
    [pools EXCEPT !["oa_cuts"] = Append(@, [family |-> "oa", point |-> point])]

\* cut_generation.add_affine_cuts: one affine cut at the master's current
\* point, appended to aff_cuts
add_affine_cuts(pools, point) ==
    [pools EXCEPT !["aff_cuts"] = Append(@, [family |-> "aff", point |-> point])]

\* a cut generator reaches for its pool on the master model: the attribute
\* lookup fails when MindtPy_initialize_master has not created that pool
pool_missing(pool, pools_created) == pool # "none" /\ pool \notin pools_created

\* Block.clone: a model of its own with the structure of the original
clone(model) == model

(***************************************************************************)
(* MindtPy_initialize_master, lines 52-95.                                 *)
(***************************************************************************)
\* variant: the orthogonality-cut list is not created on the master model
created_pools_no_fp_list(strat, init) ==
    IF strat = "OA" \/ init = "feas_pump" THEN {"oa_cuts"}
    ELSE IF strat = "ECP" THEN {"ecp_cuts"}
    ELSE IF strat = "GOA" THEN {"aff_cuts"}
    ELSE {}

\* the cut pools created on the master model
created_pools(strat, init) ==
    (IF init = "feas_pump" THEN {"fp_orthogonality_cuts"} ELSE {})
    \cup (IF strat = "OA" \/ init = "feas_pump" THEN {"oa_cuts"}
          ELSE IF strat = "ECP" THEN {"ecp_cuts"}
          ELSE IF strat = "GOA" THEN {"aff_cuts"}
          ELSE {})

\* variant: the ECP branch does not ask for the Jacobians
jacobian_requests_ecp_none(strat, init) ==
    IF strat = "OA" \/ init = "feas_pump" THEN 1 ELSE 0

\* calc_jacobians is called in the OA / feas_pump branch and in the ECP branch
jacobian_requests(strat, init) ==
    IF strat = "OA" \/ init = "feas_pump" THEN 1
    ELSE IF strat = "ECP" THEN 1
    ELSE 0

\* variant: ECP defaults to the relaxation like OA and GOA
default_init_strategy_ecp_relaxed(strat, init) ==
    IF init = "None"
    THEN IF strat \in {"OA", "GOA", "ECP"} THEN "rNLP" ELSE "max_binary"
    ELSE init

\* the default initialization strategy
default_init_strategy(strat, init) ==
    IF init = "None"
    THEN IF strat \in {"OA", "GOA"} THEN "rNLP" ELSE "max_binary"
    ELSE init

\* variant: the dispatch catches the exception and goes on
unwind_caught(err, next_pc) == next_pc

\* lines 96-114 call the strategy functions outside any try block: an
\* exception ends MindtPy_initialize_master, a return lets it go on at next_pc
unwind(err, next_pc) == IF err = "none" THEN next_pc ELSE "raised"

(***************************************************************************)
(* init_rNLP.                                                              *)
(***************************************************************************)
\* variant: the floor of one time unit is missing
remaining_rNLP_no_floor(tl, el) == int(2 * tl - el)

\* remaining = int(max(config.time_limit - elapsed, 1))
remaining_rNLP(tl, el) == int(max(2 * tl - el, 2))

\* the add_options list handed to the NLP solver
rNLP_add_options(solver, args, rem) ==
    IF solver = "gams"
    THEN Append(args.add_options, <<"reslim", rem>>)
    ELSE args.add_options

\* config.nlp_solver_args after the call: dict() copies the dictionary, not
\* the add_options list inside it
rNLP_config_args(solver, args, rem) ==
    IF solver = "gams" /\ args.has_add_options
    THEN [args EXCEPT !.add_options = Append(@, <<"reslim", rem>>)]
    ELSE args

\* variant: an infeasible relaxation is fatal
rNLP_branch_infeasible_raises(st) ==
    IF st \in {"optimal", "feasible", "locallyOptimal"} THEN "accept"
    ELSE IF st = "maxTimeLimit" THEN "maxTimeLimit"
    ELSE IF st = "maxIterations" THEN "maxIterations"
    ELSE "raise"

\* variant: a solve that ran out of time is taken as a solution
rNLP_branch_timeout_accepted(st) ==
    IF st \in {"optimal", "feasible", "locallyOptimal", "maxTimeLimit"} THEN "accept"
    ELSE IF st \in {"infeasible", "noSolution"} THEN "infeasible"
    ELSE IF st = "maxIterations" THEN "maxIterations"
    ELSE "raise"

\* the branch taken on the termination condition
rNLP_branch(st) ==
    IF st \in {"optimal", "feasible", "locallyOptimal"} THEN "accept"
    ELSE IF st \in {"infeasible", "noSolution"} THEN "infeasible"
    ELSE IF st = "maxTimeLimit" THEN "maxTimeLimit"
    ELSE IF st = "maxIterations" THEN "maxIterations"
    ELSE "raise"

\* variant: the bound is set and the history is left as it was
rNLP_bounds_unrecorded(sense, res, b) ==
    IF sense = "minimize"
    THEN IF ~isnan(res.lower_bound) THEN [b EXCEPT !.LB = res.lower_bound] ELSE b
    ELSE IF ~isnan(res.upper_bound) THEN [b EXCEPT !.UB = res.upper_bound] ELSE b

\* variant: every bound the solver reports as a number is recorded
rNLP_bounds_either(sense, res, b) ==
    LET l == IF ~isnan(res.lower_bound)
             THEN [b EXCEPT !.LB = res.lower_bound,
                            !.LB_progress = Append(@, res.lower_bound)]
             ELSE b
    IN  IF ~isnan(res.upper_bound)
        THEN [l EXCEPT !.UB = res.upper_bound,
                       !.UB_progress = Append(@, res.upper_bound)]
        ELSE l

\* the bound state after an accepted relaxation
rNLP_bounds(sense, res, b) ==
    IF sense = "minimize"
    THEN IF ~isnan(res.lower_bound)
         THEN [b EXCEPT !.LB = res.lower_bound,
                        !.LB_progress = Append(@, res.lower_bound)]
         ELSE b
    ELSE IF ~isnan(res.upper_bound)
         THEN [b EXCEPT !.UB = res.upper_bound,
                        !.UB_progress = Append(@, res.upper_bound)]
         ELSE b

\* whether the relaxed values are copied into the master model
rNLP_copies(strat) == strat \in {"OA", "GOA", "feas_pump"}

\* the pool the generated cut goes to, "none" when no cut is generated
rNLP_cut_pool(strat) ==
    IF strat = "OA" THEN "oa_cuts"
    ELSE IF strat = "GOA" THEN "aff_cuts"
    ELSE "none"

\* variant: the pool is created anew for the cut of this call
rNLP_cuts_fresh(strat, pools, point) ==
    IF strat = "OA"
    THEN add_oa_cuts([pools EXCEPT !["oa_cuts"] = <<>>], point)
    ELSE IF strat = "GOA"
    THEN add_affine_cuts([pools EXCEPT !["aff_cuts"] = <<>>], point)
    ELSE pools

\* cut generation at the master's point
rNLP_cuts(strat, pools, point) ==
    IF strat = "OA" THEN add_oa_cuts(pools, point)
    ELSE IF strat = "GOA" THEN add_affine_cuts(pools, point)
    ELSE pools

\* TransformationFactory('core.relax_integer_vars').apply_to(model)
relax_integer_vars(model) ==
    [model EXCEPT !.kinds = [v \in variable_list |-> "Reals"]]

\* variant: m is the working model itself, not a clone of it
rNLP_working_model_aliased(model) == relax_integer_vars(model)

\* lines 129-133 relax the clone m: the working model is not written to
rNLP_working_model(model) == model

\* var.value = int(round(var.value)) for the master's discrete variables
rNLP_round(vals) ==
    [v \in variable_list |->
        IF v \in discrete_variable_list THEN 2 * round(vals[v]) ELSE vals[v]]


\* the relaxed NLP is solved and its outcome handled; next_pc is where
\* MindtPy_initialize_master continues when init_rNLP returns
init_rNLP(next_pc) ==
    \E res \in Outcomes :
        LET rem == remaining_rNLP(time_limit, elapsed)
            br == rNLP_branch(res.status)
            b0 == [LB |-> LB, UB |-> UB, LB_progress |-> LB_progress,
                   UB_progress |-> UB_progress]
            b1 == IF br = "accept" THEN rNLP_bounds(objective_sense, res, b0)
                  ELSE b0
            copy == br = "accept" /\ rNLP_copies(strategy)
            mip1 == IF copy THEN copy_var_list_values(res.vals, mip_vals)
                    ELSE mip_vals
            wm1 == IF copy /\ init_strategy = "feas_pump"
                   THEN copy_var_list_values(res.vals, working_vals)
                   ELSE working_vals
            pool == rNLP_cut_pool(strategy)
            nopool == copy /\ pool_missing(pool, created)
            done == copy /\ ~nopool
            err == IF br = "raise" THEN "ValueError"
                   ELSE IF nopool THEN "AttributeError"
                   ELSE "none"
        IN  /\ remaining' = rem
            /\ solver_call' = [solver |-> nlp_solver,
                               add_options |-> rNLP_add_options(
                                   nlp_solver, nlp_solver_args, rem)]
            /\ nlp_solver_args' = rNLP_config_args(nlp_solver, nlp_solver_args, rem)
            /\ results' = res
            /\ LB' = b1.LB
            /\ UB' = b1.UB
            /\ LB_progress' = b1.LB_progress
            /\ UB_progress' = b1.UB_progress
            /\ working_vals' = wm1
            /\ m' = relax_integer_vars(clone(working_model))
            /\ working_model' = rNLP_working_model(working_model)
            /\ cuts' = IF done THEN rNLP_cuts(strategy, cuts, mip1) ELSE cuts
            /\ mip_vals' = IF done THEN rNLP_round(mip1) ELSE mip1
            /\ termination_condition' =
                   IF br = "maxTimeLimit" THEN "maxTimeLimit"
                   ELSE termination_condition
            /\ raised' = err
            /\ pc' = unwind(err, next_pc)
            /\ op' = "init_rNLP"
            /\ called' = Append(called, "init_rNLP")
            /\ UNCHANGED <<mpc_vars, config_vars, init_strategy, mip_solver_args, created,
                           wm_fp_created, mip_subiter, jac_calls>>

(***************************************************************************)
(* init_max_binaries.                                                      *)
(***************************************************************************)
\* remaining = int(max(config.time_limit - elapsed, 1))
remaining_max_binaries(tl, el) == int(max(2 * tl - el, 2))

\* the add_options list handed to the MIP solver
max_binaries_add_options(solver, args) ==
    IF solver = "gams"
    THEN Append(args.add_options, <<"optcr", 0>>)
    ELSE args.add_options

\* config.mip_solver_args after the call
max_binaries_config_args(solver, args) ==
    IF solver = "gams" /\ args.has_add_options
    THEN [args EXCEPT !.add_options = Append(@, <<"optcr", 0>>)]
    ELSE args

\* variant: the values of a solve that ran out of time are copied as well
max_binaries_branch_timeout_copied(st) ==
    IF st \in {"optimal", "maxTimeLimit"} THEN "accept"
    ELSE IF st = "infeasible" THEN "raise"
    ELSE IF st = "maxIterations" THEN "maxIterations"
    ELSE "raise"

\* variant: noSolution is logged like an iteration limit
max_binaries_branch_no_solution_logged(st) ==
    IF st = "optimal" THEN "accept"
    ELSE IF st = "infeasible" THEN "raise"
    ELSE IF st = "maxTimeLimit" THEN "maxTimeLimit"
    ELSE IF st \in {"maxIterations", "noSolution"} THEN "maxIterations"
    ELSE "raise"

\* the branch taken on the termination condition
max_binaries_branch(st) ==
    IF st = "optimal" THEN "accept"
    ELSE IF st = "infeasible" THEN "raise"
    ELSE IF st = "maxTimeLimit" THEN "maxTimeLimit"
    ELSE IF st = "maxIterations" THEN "maxIterations"
    ELSE "raise"

\* lines 219-227 on model: the nonlinear constraints and the objective are
\* deactivated, MindtPy_max_binary_obj is added
max_binaries_model(model) ==
    [model EXCEPT
        !.active = [c \in constraint_list |->
                       IF c \in nonlinear_constraint_list THEN FALSE ELSE @[c]],
        !.objectives = [o \in (DOMAIN @) \cup {"MindtPy_max_binary_obj"} |->
                           o = "MindtPy_max_binary_obj"]]

\* lines 212-227 work on the clone m: the working model is not written to
max_binaries_working_model(model) == model

\* a discrete solver reports integral values for the discrete variables
MipOutcomes ==
    {o \in Outcomes : \A v \in discrete_variable_list : o.vals[v] % 2 = 0}

init_max_binaries(next_pc) ==
    \E res \in MipOutcomes :
        LET rem == remaining_max_binaries(time_limit, elapsed)
            br == max_binaries_branch(res.status)
        IN  /\ mip_subiter' = mip_subiter + 1
            /\ remaining' = rem
            /\ solver_call' = [solver |-> mip_solver,
                               add_options |-> max_binaries_add_options(
                                   mip_solver, mip_solver_args)]
            /\ mip_solver_args' = max_binaries_config_args(mip_solver, mip_solver_args)
            /\ results' = res
            /\ m' = max_binaries_model(clone(working_model))
            /\ working_model' = max_binaries_working_model(working_model)
            /\ working_vals' = IF br = "accept"
                               THEN copy_var_list_values(res.vals, working_vals)
                               ELSE working_vals
            /\ termination_condition' =
                   IF br = "maxTimeLimit" THEN "maxTimeLimit"
                   ELSE termination_condition
            /\ raised' = IF br = "raise" THEN "ValueError" ELSE "none"
            /\ pc' = unwind(IF br = "raise" THEN "ValueError" ELSE "none", next_pc)
            /\ op' = "init_max_binaries"
            /\ called' = Append(called, "init_max_binaries")
            /\ UNCHANGED <<mpc_vars, config_vars, init_strategy, nlp_solver_args, LB, UB,
                           LB_progress, UB_progress, mip_vals, created, cuts,
                           wm_fp_created, jac_calls>>


(***************************************************************************)
(* nlp_solve (solve_subproblem and its handlers) and feasibility_pump      *)
(* (feas_pump_loop): collaborators outside this file.                      *)
(***************************************************************************)
\* variant: noSolution is not routed to the infeasible handler
initial_binary_handler_no_solution_other(st) ==
    IF st \in {"optimal", "locallyOptimal", "feasible"}
    THEN "handle_subproblem_optimal"
    ELSE IF st = "infeasible"
    THEN "handle_subproblem_infeasible"
    ELSE "handle_subproblem_other_termination"

\* the handler the initial_binary branch routes a termination condition to
initial_binary_handler(st) ==
    IF st \in {"optimal", "locallyOptimal", "feasible"}
    THEN "handle_subproblem_optimal"
    ELSE IF st \in {"infeasible", "noSolution"}
    THEN "handle_subproblem_infeasible"
    ELSE "handle_subproblem_other_termination"

\* the primal bound improves with the objective value of the fixed NLP
handle_subproblem_bounds(sense, res, b) ==
    IF sense = "minimize"
    THEN IF ~isnan(res.upper_bound)
         THEN [b EXCEPT !.UB = FMin(b.UB, res.upper_bound),
                        !.UB_progress = Append(@, FMin(b.UB, res.upper_bound))]
         ELSE b
    ELSE IF ~isnan(res.lower_bound)
         THEN [b EXCEPT !.LB = FMax(b.LB, res.lower_bound),
                        !.LB_progress = Append(@, FMax(b.LB, res.lower_bound))]
         ELSE b

\* the cuts a subproblem handler adds at the subproblem's point
handle_subproblem_cuts(strat, pools, point) ==
    IF strat = "OA" THEN add_oa_cuts(pools, point)
    ELSE IF strat = "GOA" THEN add_affine_cuts(pools, point)
    ELSE pools

\* handle_subproblem_other_termination raises on a status it does not know
other_termination_raises(st) == st \notin {"maxTimeLimit", "maxIterations"}

\* lines 101-111: the fixed NLP is solved once and its outcome handled
initial_binary ==
    IF strategy = "ECP"
    THEN /\ pc' = "done"
         /\ op' = "initial_binary"
         /\ UNCHANGED <<mpc_vars, config_vars, init_strategy, nlp_solver_args,
                        mip_solver_args, LB, UB, LB_progress, UB_progress,
                        working_vals, mip_vals, created, cuts, wm_fp_created,
                        termination_condition, mip_subiter, jac_calls,
                        remaining, solver_call, results, raised, called,
                   working_model, m>>
    ELSE \E res \in Outcomes :
        LET h == initial_binary_handler(res.status)
            b0 == [LB |-> LB, UB |-> UB, LB_progress |-> LB_progress,
                   UB_progress |-> UB_progress]
            b1 == IF h = "handle_subproblem_optimal"
                  THEN handle_subproblem_bounds(objective_sense, res, b0)
                  ELSE b0
            cutting == h # "handle_subproblem_other_termination"
            err == h = "handle_subproblem_other_termination"
                   /\ other_termination_raises(res.status)
        IN  /\ results' = res
            /\ LB' = b1.LB
            /\ UB' = b1.UB
            /\ LB_progress' = b1.LB_progress
            /\ UB_progress' = b1.UB_progress
            /\ working_vals' = IF h = "handle_subproblem_optimal"
                               THEN copy_var_list_values(res.vals, working_vals)
                               ELSE working_vals
            /\ cuts' = IF cutting
                       THEN handle_subproblem_cuts(strategy, cuts, res.vals)
                       ELSE cuts
            /\ termination_condition' =
                   IF h = "handle_subproblem_other_termination"
                      /\ res.status = "maxTimeLimit"
                   THEN "maxTimeLimit"
                   ELSE termination_condition
            /\ raised' = IF err THEN "ValueError" ELSE "none"
            /\ pc' = unwind(IF err THEN "ValueError" ELSE "none", "done")
            /\ op' = "initial_binary"
            /\ called' = called \o <<"solve_subproblem", h>>
            /\ UNCHANGED <<mpc_vars, config_vars, init_strategy, nlp_solver_args,
                           mip_solver_args, mip_vals, created, wm_fp_created,
                           mip_subiter, jac_calls, remaining, solver_call,
                   working_model, m>>

\* n orthogonality cuts at point, appended to fp_orthogonality_cuts
add_orthogonality_cuts(pools, point, n) ==
    [pools EXCEPT !["fp_orthogonality_cuts"] =
        @ \o [i \in 1..n |-> [family |-> "fp", point |-> point]]]

\* line 114: the feasibility pump loop
feas_pump_loop ==
    /\ pc = "fp_loop"
    /\ \E n \in 0..MaxFpCuts :
           cuts' = add_orthogonality_cuts(cuts, mip_vals, n)
    /\ pc' = "done"
    /\ op' = "feas_pump_loop"
    /\ called' = Append(called, "feas_pump_loop")
    /\ UNCHANGED <<mpc_vars, config_vars, init_strategy, nlp_solver_args,
                   mip_solver_args, LB, UB, LB_progress, UB_progress,
                   working_vals, mip_vals, created, wm_fp_created,
                   termination_condition, mip_subiter, jac_calls, remaining,
                   solver_call, results, raised,
                   working_model, m>>

(***************************************************************************)
(* MindtPy_initialize_master.                                              *)
(***************************************************************************)
\* lines 52-95: the master model is cloned from the working model, the cut
\* pools are created and the default initialization strategy is resolved
Setup ==
    /\ pc = "start"
    /\ mip_vals' = working_vals
    /\ created' = created_pools(strategy, init_strategy)
    /\ cuts' = [p \in PoolNames |-> <<>>]
    /\ wm_fp_created' = (wm_fp_created
                         \/ (init_strategy = "feas_pump" /\ fp_projcuts))
    /\ jac_calls' = jac_calls + jacobian_requests(strategy, init_strategy)
    /\ init_strategy' = default_init_strategy(strategy, init_strategy)
    /\ pc' = "dispatch"
    /\ op' = "setup"
    /\ called' = <<>>
    /\ UNCHANGED <<mpc_vars, config_vars, nlp_solver_args, mip_solver_args, LB, UB,
                   LB_progress, UB_progress, working_vals,
                   termination_condition, mip_subiter, remaining, solver_call,
                   results, raised,
                   working_model, m>>

\* lines 97-98
DispatchRNLP ==
    /\ pc = "dispatch"
    /\ init_strategy = "rNLP"
    /\ init_rNLP("done")

\* lines 99-100
DispatchMaxBinary ==
    /\ pc = "dispatch"
    /\ init_strategy = "max_binary"
    /\ init_max_binaries("done")

\* lines 101-111
DispatchInitialBinary ==
    /\ pc = "dispatch"
    /\ init_strategy = "initial_binary"
    /\ initial_binary

\* lines 112-113; line 114 follows when init_rNLP returns
DispatchFeasPump ==
    /\ pc = "dispatch"
    /\ init_strategy = "feas_pump"
    /\ init_rNLP("fp_loop")

(***************************************************************************)
(* pyomo/contrib/mpc/data/convert.py.  A list is a sequence; the element   *)
(* Python writes l[i] is l[i + 1] here.  A dict is a function on its set   *)
(* of keys, an interval the pair <<lo, hi>>.                               *)
(***************************************************************************)
Names == {"a", "b"}
SampleValues == {0, 1}

min(a, b) == IF a <= b THEN a ELSE b

\* range(a, b) as a list
range(a, b) == [k \in 1..max(b - a, 0) |-> a + k - 1]

\* zip(k, v) as a list of pairs
zip(k, v) == [i \in 1..min(Len(k), Len(v)) |-> <<k[i], v[i]>>]

\* dict(pairs): the pairs are entered one after the other, a later pair
\* replaces the value an equal key was given before
RECURSIVE dict(_)
dict(pairs) ==
    IF pairs = <<>> THEN <<>>
    ELSE LET n == Len(pairs)
             d == dict(SubSeq(pairs, 1, n - 1))
             key == pairs[n][1]
         IN  [j \in (DOMAIN d) \cup {key} |-> IF j = key THEN pairs[n][2] ELSE d[j]]

\* a <= b on tuples: Python compares them entry by entry
TupleLeq(a, b) == a[1] < b[1] \/ (a[1] = b[1] /\ a[2] <= b[2])

\* variant: the list is left in the order given
sorted_as_given(l) == l

\* list(sorted(l)) for a list of intervals
RECURSIVE sorted(_)
sorted(l) ==
    IF l = <<>> THEN <<>>
    ELSE LET rest == sorted(Tail(l))
             x == Head(l)
             k == Cardinality({i \in 1..Len(rest) :
                                 TupleLeq(rest[i], x) /\ rest[i] # x})
         IN  SubSeq(rest, 1, k) \o <<x>> \o SubSeq(rest, k + 1, Len(rest))

\* lines 45-69: "RuntimeError" when an interval of the sorted list has its
\* low endpoint above its high one or starts before its predecessor ends,
\* "none" otherwise
assert_disjoint_intervals(ivs) ==
    LET s == sorted(ivs)
    IN  IF \E i \in 1..Len(s) :
               \/ ~(s[i][1] <= s[i][2])
               \/ (i # 1 /\ ~(s[i - 1][2] <= s[i][1]))
        THEN "RuntimeError"
        ELSE "none"

\* a call of assert_disjoint_intervals
CallAssertDisjointIntervals ==
    /\ mpc_op = "intervals_ready"
    /\ mpc_raised' = assert_disjoint_intervals(intervals)
    /\ mpc_op' = "assert_disjoint_intervals"
    /\ UNCHANGED <<mindtpy_vars, data, use_left_endpoint, interval_data,
                   intervals, time_points, time_tol, series, model_values,
                   writes>>

\* intervals = [(time[i-1], time[i]) for i in range(1, n_t)]
intervals_of(time, n_t) ==
    [k \in 1..Len(range(1, n_t)) |->
        LET i == range(1, n_t)[k] IN <<time[(i - 1) + 1], time[i + 1]>>]

\* variant: the endpoints are taken the other way round
interval_values_swapped(values, n_t, left) ==
    [k \in 1..Len(range(1, n_t)) |->
        LET i == range(1, n_t)[k]
        IN  IF left THEN values[i + 1] ELSE values[(i - 1) + 1]]

\* [values[i-1] if use_left_endpoint else values[i] for i in range(1, n_t)]
interval_values(values, n_t, left) ==
    [k \in 1..Len(range(1, n_t)) |->
        LET i == range(1, n_t)[k]
        IN  IF left THEN values[(i - 1) + 1] ELSE values[i + 1]]

interval_data_from_time_series(d, left) ==
    LET time == d[1]
        value_dict == d[2]
        n_t == Len(time)
    IN  IF n_t = 1
        THEN LET t0 == time[1]
             IN  [name \in DOMAIN value_dict |->
                     dict(<< <<<<t0, t0>>, value_dict[name][1]>> >>)]
        ELSE [name \in DOMAIN value_dict |->
                 dict(zip(intervals_of(time, n_t),
                          interval_values(value_dict[name], n_t, left)))]

\* a call of interval_data_from_time_series
CallIntervalDataFromTimeSeries ==
    /\ mpc_op = "ready"
    /\ interval_data' = interval_data_from_time_series(data, use_left_endpoint)
    /\ mpc_op' = "interval_data_from_time_series"
    /\ UNCHANGED <<mindtpy_vars, data, use_left_endpoint, intervals,
                   time_points, time_tol, series, model_values, writes, mpc_raised>>

(***************************************************************************)
(* time_series_from_interval_data, lines 234-293.                          *)
(***************************************************************************)
\* the names of a dict of dicts are gone through in this order
NameOrder == <<"a", "b", "c">>

\* list(d.keys()): the keys, in some order
RECURSIVE keys(_)
keys(d) ==
    IF DOMAIN d = {} THEN <<>>
    ELSE LET key == CHOOSE j \in DOMAIN d : TRUE
         IN  <<key>> \o keys([j \in (DOMAIN d) \ {key} |-> d[j]])

\* variant: the test of a time point that is neither the first nor under
\* use_left_endpoint is the left-closed one as well
in_interval_left_closed(t, lo, hi, i, n_time, left, tol) ==
    t >= lo - tol /\ t < hi - tol

\* lines 267-274: t_in_interval for the time point t of index i
in_interval(t, lo, hi, i, n_time, left, tol) ==
    IF left \/ i = 0
    THEN t >= lo - tol /\ t < hi - tol
    ELSE IF ~left \/ i = n_time - 1
    THEN t > lo + tol /\ t <= hi + tol
    ELSE FALSE

\* lines 256-286: the while loop for one time point, from the interval idx
RECURSIVE find_interval(_, _, _, _, _, _, _)
find_interval(ivs, idx, t, i, n_time, left, tol) ==
    IF ~(idx < Len(ivs)) THEN [idx |-> idx, outcome |-> "exhausted"]
    ELSE LET lo == ivs[idx + 1][1]
             hi == ivs[idx + 1][2]
         IN  IF t < lo - tol THEN [idx |-> idx, outcome |-> "ValueError"]
             ELSE IF in_interval(t, lo, hi, i, n_time, left, tol)
             THEN [idx |-> idx, outcome |-> "found"]
             ELSE find_interval(ivs, idx + 1, t, i, n_time, left, tol)

\* variant: a time point past the last interval is passed over
exhausted_never(idx, n_intervals) == FALSE

\* line 288: no interval is left for the time point
exhausted(idx, n_intervals) == idx = n_intervals

\* lines 253-291: the loop over the time points from index i on, acc being
\* data[cuid] so far
RECURSIVE values_for(_, _, _, _, _, _, _, _)
values_for(inputs, ivs, times, i, idx, acc, left, tol) ==
    IF i = Len(times) THEN [values |-> acc, raised |-> "none"]
    ELSE LET f == find_interval(ivs, idx, times[i + 1], i, Len(times), left, tol)
             acc1 == IF f.outcome = "found"
                     THEN Append(acc, inputs[ivs[f.idx + 1]])
                     ELSE acc
         IN  IF f.outcome = "ValueError"
             THEN [values |-> acc, raised |-> "ValueError"]
             ELSE IF exhausted(f.idx, Len(ivs))
             THEN [values |-> acc1, raised |-> "ValueError"]
             ELSE values_for(inputs, ivs, times, i + 1, f.idx, acc1, left, tol)

\* lines 247-291 for one name: the values built and the exception raised
series_of(inputs, times, left, tol) ==
    LET ivs == sorted(keys(inputs))
    IN  IF assert_disjoint_intervals(ivs) # "none"
        THEN [values |-> <<>>, raised |-> "RuntimeError"]
        ELSE values_for(inputs, ivs, times, 0, 0, <<>>, left, tol)

\* the names of idata that are gone through before name
NamesBefore(idata, name) ==
    {NameOrder[j] : j \in {k \in 1..Len(NameOrder) :
                              /\ NameOrder[k] \in DOMAIN idata
                              /\ \E l \in (k + 1)..Len(NameOrder) :
                                     NameOrder[l] = name}}

\* for every name the values built and the exception raised; "unreached"
\* marks the names after the one that raised
time_series_from_interval_data(idata, times, left, tol) ==
    [name \in DOMAIN idata |->
        IF \E n \in NamesBefore(idata, name) :
               series_of(idata[n], times, left, tol).raised # "none"
        THEN [values |-> <<>>, raised |-> "unreached"]
        ELSE series_of(idata[name], times, left, tol)]

\* the exception a call ends with
raised_by(result) ==
    IF \E name \in DOMAIN result : result[name].raised \in {"ValueError", "RuntimeError"}
    THEN result[CHOOSE name \in DOMAIN result :
                    result[name].raised \in {"ValueError", "RuntimeError"}].raised
    ELSE "none"

\* a call of time_series_from_interval_data
CallTimeSeriesFromIntervalData ==
    /\ mpc_op = "series_ready"
    /\ series' = time_series_from_interval_data(interval_data, time_points,
                                                use_left_endpoint, time_tol)
    /\ mpc_raised' = raised_by(series')
    /\ mpc_op' = "time_series_from_interval_data"
    /\ UNCHANGED <<mindtpy_vars, data, use_left_endpoint, interval_data,
                   intervals, time_points, time_tol, model_values, writes>>

\* a call of time_series_from_interval_data on the intervals made of the
\* time series, at the time points of the series
CallTimeSeriesOfIntervals ==
    /\ mpc_op = "interval_data_from_time_series"
    /\ time_points' = data[1]
    /\ series' = time_series_from_interval_data(interval_data, data[1],
                                                use_left_endpoint, time_tol)
    /\ mpc_raised' = raised_by(series')
    /\ mpc_op' = "time_series_from_interval_data"
    /\ UNCHANGED <<mindtpy_vars, data, use_left_endpoint, interval_data,
                   intervals, time_tol, model_values, writes>>

(***************************************************************************)
(* load_inputs_into_model, lines 130-173.  The time set is the list of its *)
(* points in increasing order, indexed from 1; writes lists the calls of    *)
(* set_value in order, model_values[name][idx] is the value var[time.at(idx)]*)
(* was set to last.                                                         *)
(***************************************************************************)
\* the variables that are on the model
ModelVars == {"a", "b"}

\* model.find_component(cuid): <<>> is None
find_component(cuid) == IF cuid \in ModelVars THEN <<cuid>> ELSE <<>>

\* time.find_nearest_index(target, tolerance): the index of the point of
\* the time set that is nearest to target, the lower index of two equally
\* near ones, as <<index>>, or <<>> (None) when that point is further from
\* target than the tolerance
find_nearest_index(ts, target, tolerance) ==
    LET i == Cardinality({j \in 1..Len(ts) : ts[j] <= target})
        nearest_index ==
            IF i = 0 THEN 1
            ELSE IF i = Len(ts) THEN i
            ELSE IF target - ts[i] <= ts[i + 1] - target THEN i ELSE i + 1
        delta == IF ts[nearest_index] >= target
                 THEN ts[nearest_index] - target
                 ELSE target - ts[nearest_index]
    IN  IF delta > tolerance THEN <<>> ELSE <<nearest_index>>

\* line 170: the indices an interval is written to
idx_iter(idx0, idx1) ==
    IF idx0 # idx1 THEN range(idx0 + 1, idx1 + 1) ELSE <<idx0>>

\* lines 163-173: the calls of set_value for one interval
interval_writes(cuid, inputs, ts, tol, interval) ==
    LET idx0 == find_nearest_index(ts, interval[1], tol)
        idx1 == find_nearest_index(ts, interval[2], tol)
    IN  IF idx0 = <<>> \/ idx1 = <<>> THEN <<>>
        ELSE LET input_val == inputs[interval]
                 it == idx_iter(idx0[1], idx1[1])
             IN  [k \in 1..Len(it) |->
                     [cuid |-> cuid, interval |-> interval, idx |-> it[k],
                      value |-> input_val]]

\* lines 162-173: the calls of set_value for the intervals from the k-th on
RECURSIVE intervals_writes(_, _, _, _, _, _)
intervals_writes(cuid, inputs, ts, tol, ivs, k) ==
    IF k > Len(ivs) THEN <<>>
    ELSE interval_writes(cuid, inputs, ts, tol, ivs[k])
             \o intervals_writes(cuid, inputs, ts, tol, ivs, k + 1)

\* lines 152-173 from the k-th name on: the calls of set_value made and the
\* exception raised
RECURSIVE load_from(_, _, _, _)
load_from(ts, input_data, tol, k) ==
    IF k > Len(NameOrder) THEN [writes |-> <<>>, raised |-> "none"]
    ELSE IF NameOrder[k] \notin DOMAIN input_data
    THEN load_from(ts, input_data, tol, k + 1)
    ELSE LET cuid == NameOrder[k]
             inputs == input_data[cuid]
             ivs == sorted(keys(inputs))
         IN  IF find_component(cuid) = <<>>
             THEN [writes |-> <<>>, raised |-> "RuntimeError"]
             ELSE IF assert_disjoint_intervals(ivs) # "none"
             THEN [writes |-> <<>>, raised |-> "RuntimeError"]
             ELSE LET rest == load_from(ts, input_data, tol, k + 1)
                  IN  [writes |-> intervals_writes(cuid, inputs, ts, tol, ivs, 1)
                                      \o rest.writes,
                       raised |-> rest.raised]

load_inputs_into_model(ts, input_data, tol) == load_from(ts, input_data, tol, 1)

\* the values the variables are left with: of the calls of set_value on
\* var[time.at(idx)] the last one counts
values_set(ws) ==
    [name \in {ws[k].cuid : k \in 1..Len(ws)} |->
        [idx \in {ws[k].idx : k \in {j \in 1..Len(ws) : ws[j].cuid = name}} |->
            LET last == CHOOSE k \in 1..Len(ws) :
                            /\ ws[k].cuid = name
                            /\ ws[k].idx = idx
                            /\ \A j \in (k + 1)..Len(ws) :
                                   ~(ws[j].cuid = name /\ ws[j].idx = idx)
            IN  ws[last].value]]

\* a call of load_inputs_into_model
CallLoadInputsIntoModel ==
    /\ mpc_op = "load_ready"
    /\ LET result == load_inputs_into_model(time_points, interval_data, time_tol)
       IN  /\ writes' = result.writes
           /\ model_values' = values_set(result.writes)
           /\ mpc_raised' = result.raised
    /\ mpc_op' = "load_inputs_into_model"
    /\ UNCHANGED <<mindtpy_vars, data, use_left_endpoint, interval_data,
                   intervals, time_points, time_tol, series>>

(***************************************************************************)
(* Specifications.                                                         *)
(***************************************************************************)
SolverSetups == {[nlp |-> "ipopt", mip |-> "glpk"], [nlp |-> "gams", mip |-> "gams"]}

\* the bound state of a fresh run, and two bound states of a run under way;
\* LB_progress and UB_progress start with the current bounds
FreshBounds == {<<NegInf, PosInf>>}
StartBounds == FreshBounds \cup {<<Num(MaxBound), PosInf>>, <<NegInf, Num(0)>>}

Start(strats, inits, senses, flags, setups, bounds, tls, els) ==
    /\ strategy \in strats
    /\ init_strategy \in inits
    /\ configured_init_strategy = init_strategy
    /\ fp_projcuts \in flags
    /\ objective_sense \in senses
    /\ \E s \in setups : nlp_solver = s.nlp /\ mip_solver = s.mip
    /\ \E h \in flags :
           /\ nlp_solver_args = [has_add_options |-> h, add_options |-> <<>>]
           /\ mip_solver_args = [has_add_options |-> h, add_options |-> <<>>]
    /\ time_limit \in tls
    /\ elapsed \in els
    /\ \E b \in bounds :
           /\ LB = b[1]
           /\ UB = b[2]
           /\ LB_progress = <<b[1]>>
           /\ UB_progress = <<b[2]>>
    /\ working_vals = ZeroVals
    /\ working_model = WorkingModel
    /\ m = NoModel
    /\ mip_vals = ZeroVals
    /\ created = {}
    /\ cuts = [p \in PoolNames |-> <<>>]
    /\ wm_fp_created = FALSE
    /\ termination_condition = "unknown"
    /\ mip_subiter = 0
    /\ jac_calls = 0
    /\ remaining = 0
    /\ solver_call = NoCall
    /\ results = NoResults
    /\ pc = "start"
    /\ op = "none"
    /\ raised = "none"
    /\ called = <<>>

NoData == <<<<>>, [name \in Names |-> <<>>]>>
NoIntervalData == [name \in Names |-> <<>>]
NoSeries == [name \in Names |-> [values |-> <<>>, raised |-> "unreached"]]

\* the arguments of a conversion that is to run, nothing built yet
MpcStart(op0, datas, lefts, dicts, lists, times, tols) ==
    /\ mpc_op = op0
    /\ data \in datas
    /\ use_left_endpoint \in lefts
    /\ interval_data \in dicts
    /\ intervals \in lists
    /\ time_points \in times
    /\ time_tol \in tols
    /\ series = NoSeries
    /\ model_values = <<>>
    /\ writes = <<>>
    /\ mpc_raised = "none"

\* convert.py is not in use
NoConversion ==
    MpcStart("none", {NoData}, {FALSE}, {NoIntervalData}, {<<>>}, {<<>>}, {0})

\* one run of MindtPy_initialize_master under every configuration
Init ==
    /\ Start(Strategies, InitStrategies, Senses, BOOLEAN, SolverSetups,
             StartBounds, {MaxTimeLimit}, {0})
    /\ NoConversion

Next ==
    \/ Setup
    \/ DispatchRNLP
    \/ DispatchMaxBinary
    \/ DispatchInitialBinary
    \/ DispatchFeasPump
    \/ feas_pump_loop

Spec == Init /\ [][Next]_vars

\* one run under every configured time limit and every clock reading
InitTime ==
    /\ Start({"OA"}, InitStrategies, {"minimize"}, {TRUE}, SolverSetups,
             FreshBounds, 1..MaxTimeLimit, 0..MaxElapsed)
    /\ NoConversion

SpecTime == InitTime /\ [][Next]_vars

\* a further call of init_rNLP on the state a run has left
CallInitRNLP ==
    /\ pc = "done"
    /\ init_rNLP("end")

\* a further call of init_max_binaries on the state a run has left
CallInitMaxBinaries ==
    /\ pc = "done"
    /\ init_max_binaries("end")

\* a run of the relaxation or of the maximize-binaries strategy, followed by
\* one more call of a strategy function
InitCalls ==
    /\ Start({"OA", "GOA"}, {"rNLP", "max_binary"}, {"minimize"}, {TRUE},
             {[nlp |-> "gams", mip |-> "gams"]}, FreshBounds,
             {MaxTimeLimit}, {0})
    /\ NoConversion

NextCalls ==
    \/ Setup
    \/ DispatchRNLP
    \/ DispatchMaxBinary
    \/ CallInitRNLP
    \/ CallInitMaxBinaries

SpecCalls == InitCalls /\ [][NextCalls]_vars

\* the lists of length n over the set S
Lists(S, n) == [1..n -> S]

\* the time series of n time points and, for every name, as many values
TimeSeries(n) ==
    {<<time, value_dict>> :
        time \in Lists(0..MaxTime, n),
        value_dict \in [Names -> Lists(SampleValues, n)]}

\* MindtPy_initialize_master is not in use
AtRest ==
    Start({"OA"}, {"None"}, {"minimize"}, {FALSE},
          {[nlp |-> "ipopt", mip |-> "glpk"]}, FreshBounds, {MaxTimeLimit}, {0})

\* a call of a conversion on every time series, MindtPy at rest
InitConvert ==
    /\ AtRest
    /\ MpcStart("ready", UNION {TimeSeries(n) : n \in 0..MaxPoints}, BOOLEAN,
                {NoIntervalData}, {<<>>}, {<<>>}, {0})

NextConvert ==
    \/ CallIntervalDataFromTimeSeries

SpecConvert == InitConvert /\ [][NextConvert]_vars

\* every pair of endpoints, the low one above the high one included
Pairs == (0..MaxTime) \X (0..MaxTime)

\* the lists of n intervals
IntervalLists(n) == Lists(Pairs, n)

\* a call of assert_disjoint_intervals on every list of intervals
InitDisjoint ==
    /\ AtRest
    /\ MpcStart("intervals_ready", {NoData}, {FALSE}, {NoIntervalData},
                UNION {IntervalLists(n) : n \in 0..MaxIntervals}, {<<>>}, {0})

NextDisjoint ==
    \/ CallAssertDisjointIntervals

SpecDisjoint == InitDisjoint /\ [][NextDisjoint]_vars

\* the intervals with low <= high
Intervals == {iv \in Pairs : iv[1] <= iv[2]}

\* the value given to an interval, another one for every interval
value_of(iv) == iv[1] * (MaxTime + 1) + iv[2]

\* the dicts of up to n intervals, disjoint or not
IntervalDicts(n) ==
    {[iv \in S |-> value_of(iv)] :
        S \in {T \in SUBSET Intervals : Cardinality(T) <= n}}

\* the lists of n time points in increasing order, repeated points included
SortedTimes(n) ==
    {l \in Lists(0..MaxTime, n) : \A i \in 1..(n - 1) : l[i] <= l[i + 1]}

\* a call of time_series_from_interval_data: two names, the second one with
\* the intervals of the first or with none
InitSeries ==
    /\ AtRest
    /\ MpcStart("series_ready", {NoData}, BOOLEAN,
                UNION {{[name \in Names |-> d],
                        [name \in Names |-> IF name = "a" THEN d ELSE <<>>]} :
                       d \in IntervalDicts(MaxKeys)},
                {<<>>}, UNION {SortedTimes(n) : n \in 0..MaxPoints}, {0, 1})

NextSeries ==
    \/ CallTimeSeriesFromIntervalData

SpecSeries == InitSeries /\ [][NextSeries]_vars

\* the time sets of n points
TimeSets(n) == {l \in Lists(0..MaxTime, n) : \A i \in 1..(n - 1) : l[i] < l[i + 1]}

\* a call of load_inputs_into_model: the same intervals for one or two
\* variables of the model, or for one and a name that is not on the model
InitLoad ==
    /\ AtRest
    /\ MpcStart("load_ready", {NoData}, {FALSE},
                {[name \in D |-> d] :
                    D \in {{"a"}, {"a", "b"}, {"a", "c"}},
                    d \in IntervalDicts(MaxKeys)},
                {<<>>}, UNION {TimeSets(n) : n \in 1..MaxPoints}, {0, 1})

NextLoad ==
    \/ CallLoadInputsIntoModel

SpecLoad == InitLoad /\ [][NextLoad]_vars

\* the time series of n time points in increasing order
SortedTimeSeries(n) == {d \in TimeSeries(n) : d[1] \in SortedTimes(n)}

\* a conversion of a time series to intervals and back, under either setting
\* of use_left_endpoint
InitRoundTrip ==
    /\ AtRest
    /\ MpcStart("ready", UNION {SortedTimeSeries(n) : n \in 0..MaxPoints},
                BOOLEAN, {NoIntervalData}, {<<>>}, {<<>>}, {0})

NextRoundTrip ==
    \/ CallIntervalDataFromTimeSeries
    \/ CallTimeSeriesOfIntervals

SpecRoundTrip == InitRoundTrip /\ [][NextRoundTrip]_vars


(***************************************************************************)
(* Properties.                                                             *)
(***************************************************************************)
Accepted == {"optimal", "locallyOptimal", "feasible"}
Handled == Accepted \cup {"infeasible", "noSolution", "maxTimeLimit", "maxIterations"}

IsPrefix(s, t) == Len(s) <= Len(t) /\ \A i \in 1..Len(s) : s[i] = t[i]

\* C1: in init_rNLP, on an accepted status, a minimization leaves UB and
\* UB_progress as they were whatever upper bound the solver reports, and a
\* maximization leaves LB and LB_progress as they were.
C1_SenseSelectsBound ==
    [][(op' = "init_rNLP" /\ results'.status \in Accepted)
       => IF objective_sense = "minimize"
          THEN UB' = UB /\ UB_progress' = UB_progress
          ELSE LB' = LB /\ LB_progress' = LB_progress]_vars

\* C1 witness: an accepted minimization whose solver reported a numeric upper
\* bound other than UB, and whose lower bound was recorded.
C1_Witness ==
    /\ op = "init_rNLP"
    /\ results.status \in Accepted
    /\ objective_sense = "minimize"
    /\ ~isnan(results.upper_bound)
    /\ results.upper_bound # UB
    /\ LB = results.lower_bound
    /\ Len(LB_progress) = 2


NonDecreasing(h) == \A i \in 1..(Len(h) - 1) : FLeq(h[i], h[i + 1])
NonIncreasing(h) == \A i \in 1..(Len(h) - 1) : FLeq(h[i + 1], h[i])

\* C2: whatever the calls and the solver outcomes, LB_progress is
\* non-decreasing, UB_progress is non-increasing, LB never moves down and UB
\* never moves up.
C2_BoundsMonotone ==
    [][/\ NonDecreasing(LB_progress')
       /\ NonIncreasing(UB_progress')
       /\ FLeq(LB, LB')
       /\ FLeq(UB', UB)]_vars

StrategyOps == {"init_rNLP", "init_max_binaries", "initial_binary", "feas_pump_loop"}

\* C3: a call of an initialization strategy leaves every cut that is in a
\* pool of the master model where it is: each pool after the call is the pool
\* before the call, possibly with cuts appended.
C3_PoolsAppendOnly ==
    [][op' \in StrategyOps
       => \A p \in PoolNames : IsPrefix(cuts[p], cuts'[p])]_vars

\* C3 witness: init_rNLP has appended a cut to a pool that already held one.
C3_Witness ==
    /\ op = "init_rNLP"
    /\ pc = "end"
    /\ Len(cuts["oa_cuts"]) = 2

\* C4: init_rNLP raises exactly on a termination condition outside the seven
\* it handles, and a call that raises has changed neither the bounds, the
\* bound histories, the master's values nor a cut pool.
C4_RaisesOnlyOnUnknownStatus ==
    [][op' = "init_rNLP"
       => /\ (raised' # "none") <=> (results'.status \notin Handled)
          /\ raised' # "none"
             => /\ LB' = LB /\ UB' = UB
                /\ LB_progress' = LB_progress /\ UB_progress' = UB_progress
                /\ mip_vals' = mip_vals
                /\ cuts' = cuts]_vars

\* C5: init_max_binaries raises on infeasible and on noSolution, returns on
\* maxTimeLimit and on maxIterations, and in all four cases leaves the working
\* model's values as they were.
C5_MaxBinariesFailures ==
    [][(op' = "init_max_binaries"
        /\ results'.status \in {"infeasible", "noSolution", "maxTimeLimit",
                                "maxIterations"})
       => /\ (raised' # "none") <=> (results'.status \in {"infeasible", "noSolution"})
          /\ working_vals' = working_vals]_vars

\* C5 witness: init_max_binaries has raised on noSolution.
C5_Witness ==
    /\ op = "init_max_binaries"
    /\ results.status = "noSolution"
    /\ raised = "ValueError"
    /\ pc = "raised"

\* C6: init_rNLP and init_max_binaries treat feasible and locallyOptimal as
\* they treat optimal: the call returns, and the bounds, the histories and the
\* copied values are those an optimal outcome with the same solver data gives.
C6_FeasibleAsOptimal ==
    [][((op' = "init_rNLP" \/ op' = "init_max_binaries")
        /\ results'.status \in {"feasible", "locallyOptimal"})
       => /\ raised' = "none"
          /\ op' = "init_max_binaries"
             => working_vals' = copy_var_list_values(results'.vals, working_vals)
          /\ op' = "init_rNLP"
             => [LB |-> LB', UB |-> UB', LB_progress |-> LB_progress',
                 UB_progress |-> UB_progress']
                = rNLP_bounds(objective_sense, results',
                              [LB |-> LB, UB |-> UB, LB_progress |-> LB_progress,
                               UB_progress |-> UB_progress])]_vars

\* C7: a solve of init_rNLP or init_max_binaries that ends with maxTimeLimit
\* returns, sets the run-level termination condition to maxTimeLimit, and
\* leaves the bounds, the histories, the cut pools and the values of the
\* working and master models as they were.
C7_TimeLimitKeepsState ==
    [][((op' = "init_rNLP" \/ op' = "init_max_binaries")
        /\ results'.status = "maxTimeLimit")
       => /\ raised' = "none"
          /\ pc' # "raised"
          /\ termination_condition' = "maxTimeLimit"
          /\ LB' = LB /\ UB' = UB
          /\ LB_progress' = LB_progress /\ UB_progress' = UB_progress
          /\ cuts' = cuts /\ created' = created
          /\ working_vals' = working_vals
          /\ mip_vals' = mip_vals]_vars

\* C7 witness: init_rNLP has returned from a solve that hit the time limit
\* while the solver reported bounds and values.
C7_Witness ==
    /\ op = "init_rNLP"
    /\ results.status = "maxTimeLimit"
    /\ ~isnan(results.lower_bound)
    /\ termination_condition = "maxTimeLimit"
    /\ pc = "done"

\* the functions a run of MindtPy_initialize_master has called are those of
\* the initialization strategy init, and no other
RunsOnly(init) ==
    IF init = "rNLP" THEN called = <<"init_rNLP">>
    ELSE IF init = "max_binary" THEN called = <<"init_max_binaries">>
    ELSE IF init = "feas_pump"
    THEN IF pc = "done" THEN called = <<"init_rNLP", "feas_pump_loop">>
         ELSE called = <<"init_rNLP">>
    ELSE IF strategy = "ECP" THEN called = <<>>
    ELSE Len(called) = 2 /\ called[1] = "solve_subproblem"

\* C8: with no initialization strategy configured, MindtPy_initialize_master
\* runs init_rNLP under OA and GOA and init_max_binaries under every other
\* decomposition strategy; with one configured it runs that one and no other.
C8_DefaultStrategy ==
    pc \in {"done", "raised", "fp_loop"}
    => IF configured_init_strategy = "None"
       THEN IF strategy \in {"OA", "GOA"} THEN RunsOnly("rNLP")
            ELSE RunsOnly("max_binary")
       ELSE RunsOnly(configured_init_strategy)

\* C8 witness: nothing was configured under ECP and init_max_binaries ran.
C8_Witness ==
    /\ configured_init_strategy = "None"
    /\ strategy = "ECP"
    /\ pc = "done"
    /\ called = <<"init_max_binaries">>

OwnPool(strat) ==
    IF strat = "OA" THEN "oa_cuts"
    ELSE IF strat = "ECP" THEN "ecp_cuts"
    ELSE "aff_cuts"

\* C9: under OA, ECP and GOA, with any initialization strategy, the empty cut
\* pool of the decomposition strategy's own family exists on the master model
\* when the initialization strategy is dispatched.
C9_OwnPoolCreated ==
    (pc = "dispatch" /\ strategy \in {"OA", "ECP", "GOA"})
    => /\ OwnPool(strategy) \in created
       /\ cuts[OwnPool(strategy)] = <<>>

\* C10: the time budget of init_rNLP and init_max_binaries is at least 1, is
\* 1 when time_limit - elapsed is at most 1, and is time_limit - elapsed when
\* that difference is a whole number above 1.
C10_BudgetFloor ==
    op \in {"init_rNLP", "init_max_binaries"}
    => /\ remaining >= 1
       /\ 2 * time_limit - elapsed <= 2 => remaining = 1
       /\ ((2 * time_limit - elapsed) % 2 = 0 /\ 2 * time_limit - elapsed > 2)
          => 2 * remaining = 2 * time_limit - elapsed

\* C10 witness: the clock is past the time limit and the budget is 1.
C10_Witness ==
    /\ op = "init_rNLP"
    /\ elapsed > 2 * time_limit
    /\ remaining = 1

\* the options of an add_options list
Options(s) == {s[i] : i \in 1..Len(s)}

\* C11: every solve of init_rNLP and of init_max_binaries is handed the
\* computed budget `remaining` as the solver's time limit, whatever solver is
\* configured.
C11_BudgetHandedToSolver ==
    op \in {"init_rNLP", "init_max_binaries"}
    => <<"reslim", remaining>> \in Options(solver_call.add_options)

\* C12: no step of MindtPy_initialize_master, init_rNLP or init_max_binaries
\* changes a field of the configuration: strategy, init_strategy, fp_projcuts,
\* the solver names, time_limit, nlp_solver_args and mip_solver_args with
\* their add_options lists.
C12_ConfigImmutable ==
    [][/\ strategy' = strategy
       /\ init_strategy' = init_strategy
       /\ fp_projcuts' = fp_projcuts
       /\ nlp_solver' = nlp_solver
       /\ mip_solver' = mip_solver
       /\ time_limit' = time_limit
       /\ nlp_solver_args' = nlp_solver_args
       /\ mip_solver_args' = mip_solver_args]_vars

\* C13: under the feas_pump initialization strategy the orthogonality-cut
\* list exists on the master model, and on the working model exactly when
\* fp_projcuts is set, before anything is called; init_rNLP is called next
\* and feas_pump_loop after it, so the loop never starts before the lists
\* exist and init_rNLP has returned.
C13_FeasPumpOrder ==
    configured_init_strategy = "feas_pump"
    => /\ IsPrefix(called, <<"init_rNLP", "feas_pump_loop">>)
       /\ pc # "start"
          => /\ "fp_orthogonality_cuts" \in created
             /\ wm_fp_created <=> fp_projcuts
       /\ pc = "start" => called = <<>>
       /\ pc = "fp_loop" => called = <<"init_rNLP">> /\ raised = "none"

\* C13 witness: with fp_projcuts set, both lists exist and the loop has run
\* after init_rNLP.
C13_Witness ==
    /\ configured_init_strategy = "feas_pump"
    /\ fp_projcuts
    /\ wm_fp_created
    /\ "fp_orthogonality_cuts" \in created
    /\ called = <<"init_rNLP", "feas_pump_loop">>
    /\ pc = "done"

\* C14: the initial_binary strategy under a decomposition strategy other
\* than ECP solves the fixed subproblem once and calls one handler once:
\* handle_subproblem_optimal on optimal, locallyOptimal and feasible,
\* handle_subproblem_infeasible on infeasible and noSolution,
\* handle_subproblem_other_termination on every other status; under ECP it
\* solves nothing, calls no handler and leaves the bounds, the histories and
\* the cut pools as they were.
C14_InitialBinaryRouting ==
    [][op' = "initial_binary"
       => IF strategy = "ECP"
          THEN /\ called' = <<>>
               /\ results' = results
               /\ LB' = LB /\ UB' = UB
               /\ LB_progress' = LB_progress /\ UB_progress' = UB_progress
               /\ cuts' = cuts
          ELSE called' = <<"solve_subproblem",
                           IF results'.status \in {"optimal", "locallyOptimal", "feasible"}
                           THEN "handle_subproblem_optimal"
                           ELSE IF results'.status \in {"infeasible", "noSolution"}
                           THEN "handle_subproblem_infeasible"
                           ELSE "handle_subproblem_other_termination">>]_vars

\* C14 witness: the fixed subproblem ended with noSolution and the infeasible
\* handler was called.
C14_Witness ==
    /\ op = "initial_binary"
    /\ strategy = "GOA"
    /\ results.status = "noSolution"
    /\ called = <<"solve_subproblem", "handle_subproblem_infeasible">>

\* C15: an exception raised by init_rNLP, init_max_binaries or a subproblem
\* handler ends MindtPy_initialize_master with that exception: no step
\* follows it, and feas_pump_loop is not started after init_rNLP raised.
C15_FatalUnwinds ==
    [][/\ pc # "raised"
       /\ raised # "none" => raised' = raised
       /\ raised' # "none"
          => /\ pc' = "raised"
             /\ \A i \in 1..Len(called') : called'[i] # "feas_pump_loop"]_vars

\* C15 witness: under the feas_pump strategy init_rNLP has raised and the
\* run has ended without the loop.
C15_Witness ==
    /\ configured_init_strategy = "feas_pump"
    /\ op = "init_rNLP"
    /\ raised = "ValueError"
    /\ pc = "raised"
    /\ called = <<"init_rNLP">>

\* C16: under OA, an accepted relaxation of a minimization whose solver
\* reports the lower bound b makes LB equal to b and LB_progress one entry
\* longer, the new entry being b; of a maximization, the same for UB,
\* UB_progress and the reported upper bound; in both, add_oa_cuts runs once on
\* the master model: oa_cuts is one cut longer, at the relaxed point, and the
\* other pools are as they were.
C16_RelaxationRecorded ==
    [][(op' = "init_rNLP" /\ results'.status \in Accepted /\ strategy = "OA")
       => /\ raised' = "none"
          /\ (objective_sense = "minimize" /\ ~isnan(results'.lower_bound))
             => /\ LB' = results'.lower_bound
                /\ LB_progress' = Append(LB_progress, results'.lower_bound)
          /\ (objective_sense = "maximize" /\ ~isnan(results'.upper_bound))
             => /\ UB' = results'.upper_bound
                /\ UB_progress' = Append(UB_progress, results'.upper_bound)
          /\ cuts'["oa_cuts"] = Append(cuts["oa_cuts"],
                                       [family |-> "oa", point |-> results'.vals])
          /\ \A p \in PoolNames \ {"oa_cuts"} : cuts'[p] = cuts[p]]_vars

\* C16 witness: a maximization under OA whose relaxation ended feasible; the
\* reported upper bound is UB and the newest entry of UB_progress, and oa_cuts
\* holds one cut.
C16_Witness ==
    /\ op = "init_rNLP"
    /\ strategy = "OA"
    /\ objective_sense = "maximize"
    /\ results.status = "feasible"
    /\ ~isnan(results.upper_bound)
    /\ UB = results.upper_bound
    /\ UB_progress = <<PosInf, results.upper_bound>>
    /\ Len(cuts["oa_cuts"]) = 1

\* C17: an accepted relaxation under OA or GOA copies the relaxed values into
\* the master model, generates the cut at that unrounded point and rounds
\* afterwards: the strategy's pool is one cut longer, the cut's point is the
\* relaxed point, the call returns, every discrete variable of the master
\* holds an integer at most one half away from its relaxed value and every
\* other variable holds its relaxed value.
C17_CutBeforeRounding ==
    [][(op' = "init_rNLP" /\ results'.status \in Accepted
        /\ strategy \in {"OA", "GOA"})
       => LET p == IF strategy = "OA" THEN "oa_cuts" ELSE "aff_cuts"
          IN  /\ raised' = "none"
              /\ Len(cuts'[p]) = Len(cuts[p]) + 1
              /\ cuts'[p][Len(cuts'[p])].point = results'.vals
              /\ \A v \in discrete_variable_list :
                     /\ mip_vals'[v] % 2 = 0
                     /\ mip_vals'[v] - results'.vals[v] \in -1..1
              /\ \A v \in variable_list \ discrete_variable_list :
                     mip_vals'[v] = results'.vals[v]]_vars

\* C18: init_max_binaries copies the solved clone's values into the working
\* model exactly when the solve ended optimal: then every variable of the
\* working model holds the clone's value, and on every other status, whether
\* the call raises or returns, the working model's values are as they were.
C18_CopyOnOptimalOnly ==
    [][op' = "init_max_binaries"
       => IF results'.status = "optimal"
          THEN \A v \in variable_list : working_vals'[v] = results'.vals[v]
          ELSE working_vals' = working_vals]_vars

\* C18 witness: an optimal solve whose values, other than the working model's
\* earlier ones, are now the working model's.
C18_Witness ==
    /\ op = "init_max_binaries"
    /\ results.status = "optimal"
    /\ working_vals = results.vals
    /\ working_vals # ZeroVals
    /\ raised = "none"

\* C19: a relaxation in init_rNLP that ends infeasible, noSolution or
\* maxIterations returns and leaves LB, UB, both histories, every cut pool,
\* the master's and the working model's values and the run-level termination
\* condition as they were; under the feas_pump initialization strategy
\* MindtPy_initialize_master goes on to feas_pump_loop.
C19_UnsolvedRelaxationKeepsState ==
    [][(op' = "init_rNLP"
        /\ results'.status \in {"infeasible", "noSolution", "maxIterations"})
       => /\ raised' = "none"
          /\ pc' # "raised"
          /\ LB' = LB /\ UB' = UB
          /\ LB_progress' = LB_progress /\ UB_progress' = UB_progress
          /\ cuts' = cuts /\ created' = created
          /\ mip_vals' = mip_vals
          /\ working_vals' = working_vals
          /\ termination_condition' = termination_condition
          /\ (pc = "dispatch" /\ configured_init_strategy = "feas_pump")
             => pc' = "fp_loop"]_vars

\* C19 witness: the relaxation of a feas_pump run ended infeasible and the
\* loop has run after it.
C19_Witness ==
    /\ configured_init_strategy = "feas_pump"
    /\ results.status = "infeasible"
    /\ called = <<"init_rNLP", "feas_pump_loop">>
    /\ pc = "done"
    /\ termination_condition = "unknown"

\* the interval that ends at the time point i of a series (i = 1 .. N - 1)
IntervalAt(time, i) == <<time[i], time[i + 1]>>

\* the dict out returned for one name holds the N - 1 intervals of the series
\* with the values of the chosen endpoints
ExpectedIntervals(time, values, left, out) ==
    LET N == Len(time)
    IN  /\ N >= 2
           => /\ Cardinality(DOMAIN out) = N - 1
              /\ \A i \in 1..(N - 1) :
                     /\ IntervalAt(time, i) \in DOMAIN out
                     /\ out[IntervalAt(time, i)]
                            = IF left THEN values[i] ELSE values[i + 1]
        /\ N = 1
           => /\ DOMAIN out = {<<time[1], time[1]>>}
              /\ out[<<time[1], time[1]>>] = values[1]

DistinctIntervals(time) ==
    \A i, j \in 1..(Len(time) - 1) :
        i # j => IntervalAt(time, i) # IntervalAt(time, j)

C23_JacobiansOnceUpFront ==
    [][/\ jac_calls' <= 1
       /\ (pc' # "start" /\ strategy \in {"OA", "ECP"}) => jac_calls' = 1
       /\ jac_calls' # jac_calls
          => /\ called' = <<>>
             /\ solver_call' = NoCall
             /\ \A p \in PoolNames : cuts'[p] = <<>>
       /\ op' \in StrategyOps => jac_calls' = jac_calls]_vars

\* C23 witness: an ECP run with the initial_binary strategy has ended and the
\* Jacobians were asked for once.
C23_Witness ==
    /\ strategy = "ECP"
    /\ configured_init_strategy = "initial_binary"
    /\ pc = "done"
    /\ jac_calls = 1

\* C27: an accepted relaxation whose reported bound of the objective's sense
\* is NaN leaves LB, UB and both histories as they were, and under OA or GOA
\* the relaxed values are still copied into the master model, the cut is
\* generated and the discrete values are rounded.
C27_NaNBoundSkipped ==
    [][(op' = "init_rNLP" /\ results'.status \in Accepted
        /\ isnan(IF objective_sense = "minimize" THEN results'.lower_bound
                 ELSE results'.upper_bound))
       => /\ LB' = LB /\ UB' = UB
          /\ LB_progress' = LB_progress /\ UB_progress' = UB_progress
          /\ strategy \in {"OA", "GOA"}
             => LET p == IF strategy = "OA" THEN "oa_cuts" ELSE "aff_cuts"
                IN  /\ raised' = "none"
                    /\ cuts'[p] = Append(cuts[p], [family |-> IF strategy = "OA"
                                                              THEN "oa" ELSE "aff",
                                                   point |-> results'.vals])
                    /\ mip_vals' = [v \in variable_list |->
                                       IF v \in discrete_variable_list
                                       THEN 2 * round(results'.vals[v])
                                       ELSE results'.vals[v]]]_vars

\* C26: init_rNLP and init_max_binaries work on a clone: whatever the solver
\* reports, the kinds of the working model's variables, the activation of its
\* constraints and its objectives with their activation are after the call
\* what they were before it, and init_max_binaries leaves the master model's
\* values and cut pools, LB, UB and both histories as they were.
C26_WorkingModelKept ==
    [][/\ (op' = "init_rNLP" \/ op' = "init_max_binaries")
          => /\ working_model'.kinds = working_model.kinds
             /\ working_model'.active = working_model.active
             /\ working_model'.objectives = working_model.objectives
       /\ op' = "init_max_binaries"
          => /\ mip_vals' = mip_vals
             /\ created' = created /\ cuts' = cuts
             /\ LB' = LB /\ UB' = UB
             /\ LB_progress' = LB_progress /\ UB_progress' = UB_progress]_vars

\* C26 witness: init_rNLP has solved a clone whose discrete variable is
\* relaxed while the working model's is binary.
C26_Witness ==
    /\ op = "init_rNLP"
    /\ m.kinds["y"] = "Reals"
    /\ working_model.kinds["y"] = "Binary"
    /\ working_model.objectives = [o \in {"objective"} |-> TRUE]

\* two intervals have at most one point in common, an endpoint of both
TouchAtMost(a, b) ==
    LET l == max(a[1], b[1])
        h == min(a[2], b[2])
    IN  \/ l > h
        \/ (l = h /\ l \in {a[1], a[2]} /\ l \in {b[1], b[2]})

\* the lists with the entries of l in another order
Reorderings(l) ==
    {[i \in 1..Len(l) |-> l[p[i]]] :
        p \in {q \in [1..Len(l) -> 1..Len(l)] :
                  \A i, j \in 1..Len(l) : i # j => q[i] # q[j]}}

\* C21: assert_disjoint_intervals returns exactly when every interval has
\* low <= high and every two intervals of the list have at most one point in
\* common, an endpoint of both; otherwise it raises RuntimeError; the list in
\* any other order has the same outcome.
C21_DisjointExactly ==
    mpc_op = "assert_disjoint_intervals"
    => /\ mpc_raised \in {"none", "RuntimeError"}
       /\ mpc_raised = "none"
          <=> /\ \A i \in 1..Len(intervals) : intervals[i][1] <= intervals[i][2]
              /\ \A i, j \in 1..Len(intervals) :
                     i # j => TouchAtMost(intervals[i], intervals[j])
       /\ \A l \in Reorderings(intervals) :
              assert_disjoint_intervals(l) = mpc_raised

\* C21 witness: three intervals given out of order, touching at endpoints,
\* one of them a single point, pass.
C21_Witness ==
    /\ mpc_op = "assert_disjoint_intervals"
    /\ intervals = <<<<1, 2>>, <<1, 1>>, <<0, 1>>>>
    /\ mpc_raised = "none"


\* the names a call of time_series_from_interval_data went through with
\* intervals that are disjoint
Scanned ==
    {name \in DOMAIN series :
        /\ mpc_op = "time_series_from_interval_data"
        /\ series[name].raised \in {"none", "ValueError"}}

\* t lies in the interval iv within the tolerance
Within(t, iv, tol) == iv[1] - tol <= t /\ t <= iv[2] + tol

\* C22: under either setting of use_left_endpoint the first time point may
\* equal the left endpoint of an interval and the last time point may equal
\* the right endpoint of an interval: no ValueError is raised at that point
\* and the value the point gets is the value of that interval.  Stated for a
\* zero tolerance and the names whose intervals all have low < high.
C22_EndpointsAllowed ==
    \A name \in {n \in Scanned : /\ time_tol = 0
                                 /\ \A iv \in DOMAIN interval_data[n] : iv[1] < iv[2]} :
        LET inputs == interval_data[name]
            r == series[name]
            n_time == Len(time_points)
        IN  /\ (n_time >= 1 /\ \E iv \in DOMAIN inputs : iv[1] = time_points[1])
                => /\ Len(r.values) >= 1
                   /\ \E iv \in DOMAIN inputs :
                          iv[1] = time_points[1] /\ r.values[1] = inputs[iv]
            /\ (n_time >= 1 /\ \E iv \in DOMAIN inputs : iv[2] = time_points[n_time])
                => /\ ~(r.raised = "ValueError" /\ Len(r.values) = n_time - 1)
                   /\ Len(r.values) = n_time
                        => \E iv \in DOMAIN inputs :
                               /\ iv[2] = time_points[n_time]
                               /\ r.values[n_time] = inputs[iv]

\* C24: with sorted time points and disjoint intervals,
\* time_series_from_interval_data ends for a name either with one value per
\* time point, each the value of an interval holding the time point within
\* the tolerance, or with ValueError; it ends with ValueError when some time
\* point is in no interval, and it returns no list shorter than the time
\* list.
C24_OneValuePerTimePoint ==
    /\ \A name \in Scanned :
        LET inputs == interval_data[name]
            r == series[name]
            n_time == Len(time_points)
        IN  /\ r.raised = "none"
                => /\ Len(r.values) = n_time
                   /\ \A i \in 1..n_time :
                          \E iv \in DOMAIN inputs :
                              /\ r.values[i] = inputs[iv]
                              /\ Within(time_points[i], iv, time_tol)
            /\ (\E i \in 1..n_time :
                    \A iv \in DOMAIN inputs : ~Within(time_points[i], iv, time_tol))
                => r.raised = "ValueError"
    /\ (mpc_op = "time_series_from_interval_data" /\ mpc_raised = "none")
        => \A name \in DOMAIN series :
               /\ series[name].raised = "none"
               /\ Len(series[name].values) = Len(time_points)

\* a call returned for both names the values of three time points in two
\* touching intervals, the first and the last time point on endpoints
C24_Witness ==
    /\ mpc_op = "time_series_from_interval_data"
    /\ mpc_raised = "none"
    /\ ~use_left_endpoint
    /\ time_points = <<0, 1, 2>>
    /\ \A name \in Names :
           /\ DOMAIN interval_data[name] = {<<0, 1>>, <<1, 2>>}
           /\ series[name].values = <<value_of(<<0, 1>>), value_of(<<0, 1>>),
                                      value_of(<<1, 2>>)>>

\* C28: for a time series of N >= 2 distinct time points in increasing order,
\* time_series_from_interval_data on the intervals that
\* interval_data_from_time_series makes of it, at the same time points, with
\* use_left_endpoint false and a zero tolerance, raises nothing and returns
\* for every name the value of the series at every index i >= 1 (list index)
\* and, at index 0, the value of the first interval, the one of index 1.
C28_RoundTripRightEndpoint ==
    (/\ mpc_op = "time_series_from_interval_data"
     /\ ~use_left_endpoint
     /\ time_tol = 0
     /\ Len(data[1]) >= 2
     /\ \A i \in 1..(Len(data[1]) - 1) : data[1][i] < data[1][i + 1])
        => /\ mpc_raised = "none"
           /\ \A name \in Names :
                  /\ series[name].raised = "none"
                  /\ Len(series[name].values) = Len(data[1])
                  /\ \A i \in 2..Len(data[1]) :
                         series[name].values[i] = data[2][name][i]
                  /\ series[name].values[1] = data[2][name][2]

\* the round trip of a series of three time points returned, for a name
\* whose first value differs from its second
C28_Witness ==
    /\ mpc_op = "time_series_from_interval_data"
    /\ ~use_left_endpoint
    /\ data[1] = <<0, 1, 2>>
    /\ data[2]["a"] = <<0, 1, 0>>
    /\ mpc_raised = "none"
    /\ series["a"].values = <<1, 1, 0>>

\* the variables of a call of load_inputs_into_model whose intervals were
\* gone through: on the model, with disjoint intervals, and so every name before
Loaded ==
    {name \in DOMAIN interval_data :
        /\ mpc_op = "load_inputs_into_model"
        /\ \A n \in NamesBefore(interval_data, name) \cup {name} :
               /\ n \in ModelVars
               /\ \A a, b \in DOMAIN interval_data[n] : a # b => TouchAtMost(a, b)}

\* the time indices the interval iv of the variable name was written to
Written(name, iv) ==
    {writes[k].idx : k \in {j \in 1..Len(writes) :
                               writes[j].cuid = name /\ writes[j].interval = iv}}

\* idx(t): the index of the time point t was found at, as <<index>>
idx_of(t) == find_nearest_index(time_points, t, time_tol)

\* an interval whose endpoints are both found is written, with its value, to
\* idx(lo)+1 .. idx(hi), or to idx(lo) when idx(lo) = idx(hi); another
\* interval is written nowhere; nothing else is set
WritesOfIntervals ==
    \A name \in Loaded :
        /\ \A iv \in DOMAIN interval_data[name] :
               LET idx0 == idx_of(iv[1])
                   idx1 == idx_of(iv[2])
               IN  /\ (idx0 # <<>> /\ idx1 # <<>>)
                        => Written(name, iv) =
                               IF idx0 = idx1 THEN {idx0[1]}
                               ELSE (idx0[1] + 1)..idx1[1]
                   /\ (idx0 = <<>> \/ idx1 = <<>>) => Written(name, iv) = {}
        /\ \A k \in 1..Len(writes) :
               writes[k].cuid = name
                   => /\ writes[k].interval \in DOMAIN interval_data[name]
                      /\ writes[k].value = interval_data[name][writes[k].interval]
        /\ (\E iv \in DOMAIN interval_data[name] : Written(name, iv) # {})
               => /\ name \in DOMAIN model_values
                  /\ DOMAIN model_values[name] =
                         UNION {Written(name, iv) : iv \in DOMAIN interval_data[name]}

\* C25: load_inputs_into_model writes the value of an interval whose endpoints
\* are both found in the time set to exactly the time indices
\* idx(lo)+1 .. idx(hi), or to idx(lo) alone when idx(lo) = idx(hi); an
\* interval with an endpoint that is not found changes nothing; and no time
\* index is written by two of the disjoint intervals with low < high.
C25_IntervalsLoaded ==
    /\ WritesOfIntervals
    /\ \A name \in Loaded :
           \A a, b \in {iv \in DOMAIN interval_data[name] : iv[1] < iv[2]} :
               a # b => Written(name, a) \cap Written(name, b) = {}

====
